---- MODULE Spec2Model ----
(***************************************************************************)
(* Ground-station link of the CanSat repository: the telemetry validator   *)
(* (schema.py, receiver_udp.py), the console's telemetry model             *)
(* (gs_gui2.py) and the uplink command senders (cmd_sender_udp.py,         *)
(* sim_pressure_streamer.py, gs_gui2.py).                                  *)
(*                                                                         *)
(* Text is modelled as a sequence of one-character strings, so that        *)
(* strip, split, join, upper, isdigit and int() are computed as Python     *)
(* computes them.  An Optional[int] is <<>> (None) or <<n>>.               *)
(***************************************************************************)
EXTENDS Integers, Sequences, FiniteSets, TLC

VARIABLES
    prog,            \* which process runs: "receiver", "console", "cmd", "simp"
    data,            \* the input in hand: the datagram of a one-shot decode run,
                     \* the line main() of cmd_sender_udp read last (<<>> otherwise)
    event,           \* what the last step printed / emitted
    obs,             \* history variable: the packet counts fed to the loss tracker
    accepted,        \* history variable: the records accepted, in order
    received,        \* receiver_udp.main: received
    lost,            \* receiver_udp.main: lost
    last_tx_count,   \* receiver_udp.main: last_tx_count
    csv_rows,        \* receiver_udp.main: the rows written to the CSV file
    rows,            \* TelemetryModel.rows
    maxlen,          \* TelemetryModel.maxlen
    last_pkt,        \* TelemetryModel.last_pkt
    dropped,         \* TelemetryModel.dropped
    packet_count,    \* MainWindow.packet_count
    logging,         \* MainWindow.logging
    log_rows,        \* MainWindow.log_file: the rows written to the open log
    ENABLE_UDP_SEND, \* cmd_sender_udp.ENABLE_UDP_SEND
    tx,              \* the lines handed to maybe_send_udp, in order
    sent,            \* the lines given to sock.sendto, in order
    durable,         \* the rows of the log file that have left the process (flushed)
    mainq,           \* the console's main thread: the slot calls queued for it
    rxthr,           \* UdpReceiver: _stop, the thread _thr and its socket
    replayer,        \* CsvReplayer: _stop, path, the thread _thr and its reader
    handled          \* history variable: the arrival numbers of the lines the
                     \* telemetry model was given, in order

vars == <<prog, data, event, obs, accepted, received, lost, last_tx_count, csv_rows,
          rows, maxlen, last_pkt, dropped, packet_count, logging, log_rows,
          ENABLE_UDP_SEND, tx, sent, durable, mainq, rxthr, replayer,
          handled>>

rxVars  == <<received, lost, last_tx_count, csv_rows>>
guiVars == <<rows, maxlen, last_pkt, dropped, packet_count, logging, log_rows>>
upVars  == <<ENABLE_UDP_SEND, tx, sent>>
thrVars == <<mainq, rxthr, replayer, handled>>

----------------------------------------------------------------------------
(* Bounds of the model *)

MaxLines == 3     \* datagrams a session run processes
MaxCap   == 2     \* the history capacity of a session run (the console's is 20000)
MaxSends == 2     \* lines an uplink run hands to the transport
MaxHandOver == 2  \* lines the threads of a console run hand to the main thread

----------------------------------------------------------------------------
(* Python str / bytes operations *)

Whitespace == {" ", "\t", "\n", "\r", "\f"}
Digits     == <<"0", "1", "2", "3", "4", "5", "6", "7", "8", "9">>
Lower      == <<"a","b","c","d","e","f","g","h","i","j","k","l","m",
                "n","o","p","q","r","s","t","u","v","w","x","y","z">>
Upper      == <<"A","B","C","D","E","F","G","H","I","J","K","L","M",
                "N","O","P","Q","R","S","T","U","V","W","X","Y","Z">>
NonAscii   == "0xFF"   \* one byte >= 0x80

IsDigitChar(c) == \E i \in 1..10 : Digits[i] = c
DigitVal(c)    == (CHOOSE i \in 1..10 : Digits[i] = c) - 1

\* bytes.decode("ascii", errors="ignore")
decode_ascii_ignore(bytes) == SelectSeq(bytes, LAMBDA b : b # NonAscii)

\* str.strip()
RECURSIVE first_kept(_, _)
first_kept(s, i) ==
    IF i > Len(s) THEN i
    ELSE IF s[i] \in Whitespace THEN first_kept(s, i + 1) ELSE i

RECURSIVE last_kept(_, _)
last_kept(s, i) ==
    IF i < 1 THEN 0
    ELSE IF s[i] \in Whitespace THEN last_kept(s, i - 1) ELSE i

strip(s) ==
    LET lo == first_kept(s, 1)
        hi == last_kept(s, Len(s))
    IN  IF lo > hi THEN <<>> ELSE SubSeq(s, lo, hi)

\* str.split(sep): always at least one field.  The text is halved, each half
\* split, and the field the cut went through is put together again.
RECURSIVE split(_, _)
split(s, sep) ==
    IF Len(s) = 0 THEN << <<>> >>
    ELSE IF Len(s) = 1 THEN (IF s[1] = sep THEN << <<>>, <<>> >> ELSE << s >>)
    ELSE LET mid == Len(s) \div 2
             l   == split(SubSeq(s, 1, mid), sep)
             r   == split(SubSeq(s, mid + 1, Len(s)), sep)
         IN  SubSeq(l, 1, Len(l) - 1) \o << l[Len(l)] \o r[1] >> \o Tail(r)

\* str.split(): on runs of whitespace, no empty fields
RECURSIVE split_ws_from(_, _, _, _)
split_ws_from(s, i, cur, acc) ==
    IF i > Len(s) THEN (IF cur = <<>> THEN acc ELSE Append(acc, cur))
    ELSE IF s[i] \in Whitespace
         THEN split_ws_from(s, i + 1, <<>>, IF cur = <<>> THEN acc ELSE Append(acc, cur))
         ELSE split_ws_from(s, i + 1, Append(cur, s[i]), acc)

split_ws(s) == split_ws_from(s, 1, <<>>, <<>>)

\* sep.join(fields)
RECURSIVE join(_, _)
join(fields, sep) ==
    IF fields = <<>> THEN <<>>
    ELSE IF Len(fields) = 1 THEN fields[1]
    ELSE fields[1] \o <<sep>> \o join(Tail(fields), sep)

\* str.upper()
upper_char(c) == IF \E i \in 1..26 : Lower[i] = c
                 THEN Upper[CHOOSE i \in 1..26 : Lower[i] = c]
                 ELSE c
upper(s) == [i \in 1..Len(s) |-> upper_char(s[i])]

\* str.isdigit() on ASCII text
isdigit(s) == s # <<>> /\ \A i \in 1..Len(s) : IsDigitChar(s[i])

\* the value of a digit string, most significant digit first
RECURSIVE digits_value(_, _)
digits_value(s, acc) ==
    IF s = <<>> THEN acc
    ELSE digits_value(Tail(s), 10 * acc + DigitVal(s[1]))

\* int(text): surrounding whitespace, an optional sign, digits with single
\* underscores between them; <<>> stands for ValueError
py_int(text) ==
    LET t    == strip(text)
        neg  == t # <<>> /\ t[1] = "-"
        sgn  == t # <<>> /\ t[1] \in {"+", "-"}
        body == IF sgn THEN Tail(t) ELSE t
        ok   == /\ body # <<>>
                /\ IsDigitChar(body[1])
                /\ IsDigitChar(body[Len(body)])
                /\ \A i \in 1..Len(body) : IsDigitChar(body[i]) \/ body[i] = "_"
                /\ \A i \in 1..(Len(body) - 1) : ~(body[i] = "_" /\ body[i + 1] = "_")
        v    == digits_value(SelectSeq(body, IsDigitChar), 0)
    IN  IF ok THEN <<IF neg THEN 0 - v ELSE v>> ELSE <<>>

----------------------------------------------------------------------------
(* config.py and schema.py *)

TEAM_ID == <<"1","0","0","0">>

REQUIRED_HEADERS ==
    << "TEAM_ID", "MISSION_TIME", "PACKET_COUNT", "MODE", "STATE",
       "ALTITUDE", "TEMPERATURE", "PRESSURE", "VOLTAGE",
       "GYRO_R", "GYRO_P", "GYRO_Y",
       "ACCEL_R", "ACCEL_P", "ACCEL_Y",
       "MAG_R", "MAG_P", "MAG_Y",
       "AUTO_GYRO_ROTATION_RATE",
       "GPS_TIME", "GPS_ALTITUDE", "GPS_LATITUDE", "GPS_LONGITUDE", "GPS_SATS",
       "CMD_ECHO" >>

ALLOWED_MODES == { <<"F">>, <<"S">> }

ALLOWED_STATES ==
    { <<"L","A","U","N","C","H","_","P","A","D">>,
      <<"A","S","C","E","N","T">>,
      <<"A","P","O","G","E","E">>,
      <<"D","E","S","C","E","N","T">>,
      <<"P","R","O","B","E","_","R","E","L","E","A","S","E">>,
      <<"P","A","Y","L","O","A","D","_","R","E","L","E","A","S","E">>,
      <<"L","A","N","D","E","D">> }

\* the position of a column, counted from 1 (Python's INDEX[name] + 1)
INDEX(name) == CHOOSE i \in 1..Len(REQUIRED_HEADERS) : REQUIRED_HEADERS[i] = name

\* mutant: the count check off by one
has_required_field_count_short(fields) == Len(fields) >= Len(REQUIRED_HEADERS) - 1

has_required_field_count(fields) == Len(fields) >= Len(REQUIRED_HEADERS)

\* mutant: the mode check compares nothing
is_valid_mode_any(mode_text) == TRUE

is_valid_mode(mode_text) == mode_text \in ALLOWED_MODES

is_valid_state(state_text) == state_text \in ALLOWED_STATES

----------------------------------------------------------------------------
(* receiver_udp.py *)

\* list[:n]: a slice never raises, it stops at the end of the list
slice_to(list, n) == SubSeq(list, 1, IF n < Len(list) THEN n ELSE Len(list))

\* mutant: the gap counted from last instead of last + 1
loss_gap_from_last(last, seq) ==
    IF last # <<>> /\ seq > last[1] THEN seq - last[1] ELSE 0

\* the packets lost before seq, given the last packet count seen (None: <<>>);
\* the same rule is written out in main() and in TelemetryModel.append_csv_line
loss_gap(last, seq) ==
    IF last # <<>> /\ seq > last[1] + 1 THEN seq - last[1] - 1 ELSE 0

Failure(kind) == [kind |-> kind, row |-> <<>>, seq |-> <<>>]

\* parse_and_validate(line): the row and the packet count, or the ValueError raised
parse_and_validate(line) ==
    LET fields == split(strip(line), ",")
        team_id == strip(fields[INDEX("TEAM_ID")])
        mode    == strip(fields[INDEX("MODE")])
        state   == strip(fields[INDEX("STATE")])
        tx_count == py_int(fields[INDEX("PACKET_COUNT")])
    IN  IF ~has_required_field_count(fields) THEN Failure("too few fields")
        ELSE IF team_id # TEAM_ID THEN Failure("wrong TEAM_ID")
        ELSE IF ~is_valid_mode(mode) THEN Failure("bad MODE")
        ELSE IF ~is_valid_state(state) THEN Failure("bad STATE")
        ELSE IF tx_count = <<>> THEN Failure("PACKET_COUNT not an int")
        ELSE [kind |-> "ok",
              row  |-> slice_to(fields, Len(REQUIRED_HEADERS)),
              seq  |-> tx_count]

\* csv.writer.writerow(row) on a file kept as the list of rows written to it
writerow(file, row) == Append(file, row)

\* f.flush() and f.close(): all the rows written so far leave the process.
\* Rows written and not flushed stay in the buffer of the file object, which
\* holds 8192 bytes, more than the rows of a run here.
flush(file) == file

NoEvent == [op |-> "none", kind |-> "none", row |-> <<>>, seq |-> <<>>]

\* one iteration of the receive loop of main() on the datagram d
receiver_step(d) ==
    LET line == decode_ascii_ignore(d)
        r    == parse_and_validate(line)
        tx_count == r.seq[1]
    IN  IF strip(line) = <<>>
        THEN /\ event' = [NoEvent EXCEPT !.op = "receiver", !.kind = "empty"]
             /\ UNCHANGED <<rxVars, obs, accepted, durable>>
        ELSE IF r.kind # "ok"
        THEN /\ event' = [r EXCEPT !.kind = r.kind] @@ [op |-> "receiver"]
             /\ UNCHANGED <<rxVars, obs, accepted, durable>>
        ELSE /\ lost' = lost + loss_gap(last_tx_count, tx_count)
             /\ last_tx_count' = <<tx_count>>
             /\ csv_rows' = writerow(csv_rows, r.row)
             /\ durable' = flush(csv_rows')
             /\ received' = received + 1
             /\ obs' = Append(obs, tx_count)
             /\ accepted' = Append(accepted, r.row)
             /\ event' = r @@ [op |-> "receiver"]

----------------------------------------------------------------------------
(* gs_gui2.py: TelemetryModel and MainWindow *)

DEFAULT_MAXLEN == 20000

\* dict(zip(keys, values)) for two lists of the same length
dict_zip(keys, values) ==
    [k \in {keys[i] : i \in 1..Len(keys)} |->
        values[CHOOSE i \in 1..Len(keys) : keys[i] = k]]

\* mutant: the oldest rows kept instead of the newest (rows[:maxlen])
last_slice_oldest(list, n) == SubSeq(list, 1, IF n < Len(list) THEN n ELSE Len(list))

\* rows[-maxlen:] (Python: a slice from index -0 is the whole list)
last_slice(list, n) ==
    IF n = 0 \/ n >= Len(list) THEN list
    ELSE SubSeq(list, Len(list) - n + 1, Len(list))

\* TelemetryModel.append_csv_line(line); the wall-clock stamp _t_wall of a row
\* is left out
append_csv_line(line) ==
    LET parts == split(strip(line), ",")
        row   == dict_zip(REQUIRED_HEADERS, parts)
        pkt   == row["PACKET_COUNT"]
        n     == digits_value(pkt, 0)
        appended == Append(rows, row)
    IN  IF Len(parts) # Len(REQUIRED_HEADERS)
        THEN /\ event' = [op |-> "append_csv_line", kind |-> "Bad columns",
                          row |-> <<>>, seq |-> <<Len(parts)>>]
             /\ UNCHANGED <<rows, last_pkt, dropped, obs, accepted>>
        ELSE /\ IF pkt # <<>> /\ isdigit(pkt)
                THEN /\ dropped' = dropped + loss_gap(last_pkt, n)
                     /\ last_pkt' = <<n>>
                     /\ obs' = Append(obs, n)
                ELSE UNCHANGED <<dropped, last_pkt, obs>>
             /\ accepted' = Append(accepted, row)
             /\ rows' = IF Len(appended) > maxlen
                        THEN last_slice(appended, maxlen)
                        ELSE appended
             /\ event' = [op |-> "append_csv_line", kind |-> "ok",
                          row |-> row, seq |-> <<>>]

\* mutant: the log written without the column-count check
on_udp_line_unchecked(line) ==
    LET parts == split(strip(line), ",")
    IN  /\ packet_count' = packet_count + 1
        /\ append_csv_line(line)
        /\ IF logging
           THEN log_rows' = writerow(log_rows, parts)
           ELSE UNCHANGED log_rows

\* MainWindow.on_udp_line(line, addr); the sender label and the receive times
\* of the rate display are left out
on_udp_line(line) ==
    LET parts == split(strip(line), ",")
    IN  /\ packet_count' = packet_count + 1
        /\ append_csv_line(line)
        /\ IF logging /\ Len(parts) = Len(REQUIRED_HEADERS)
           THEN log_rows' = writerow(log_rows, parts)
           ELSE UNCHANGED log_rows

\* one iteration of UdpReceiver._loop on the datagram d, and the slot its
\* rx signal runs
udp_loop_step(d) ==
    LET line == strip(decode_ascii_ignore(d))
    IN  IF line = <<>>
        THEN /\ event' = [NoEvent EXCEPT !.op = "udp_loop", !.kind = "empty"]
             /\ UNCHANGED <<rows, last_pkt, dropped, obs, accepted, packet_count,
                            log_rows>>
        ELSE on_udp_line(line)

\* MainWindow.toggle_log, the button checked: a new file with the header row
toggle_log_on ==
    /\ ~logging
    /\ log_rows' = writerow(<<>>, REQUIRED_HEADERS)
    /\ durable' = <<>>
    /\ logging' = TRUE

\* MainWindow.toggle_log, the button unchecked: the file is closed
toggle_log_off ==
    /\ logging
    /\ logging' = FALSE
    /\ durable' = flush(log_rows)
    /\ UNCHANGED log_rows

----------------------------------------------------------------------------
(* cmd_sender_udp.py *)

\* str(n) for an int
RECURSIVE nat_str(_)
nat_str(n) ==
    IF n < 10 THEN <<Digits[n + 1]>>
    ELSE nat_str(n \div 10) \o <<Digits[(n % 10) + 1]>>

int_str(n) == IF n < 0 THEN <<"-">> \o nat_str(0 - n) ELSE nat_str(n)

\* f"CMD,{TEAM_ID},{name}" followed by ",{arg}" for each argument
wire(name, args) == join(<<<<"C","M","D">>, TEAM_ID, name>> \o args, ",")

CmdError(reason) == [ok |-> FALSE, line |-> <<>>, reason |-> reason]
CmdLine(line)    == [ok |-> TRUE, line |-> line, reason |-> ""]

ON_OFF   == { <<"O","N">>, <<"O","F","F">> }
SIM_ARGS == { <<"E","N","A","B","L","E">>, <<"A","C","T","I","V","A","T","E">>, <<"D","I","S","A","B","L","E">> }

\* x in s for a character x and a str s
contains(s, x) == \E i \in 1..Len(s) : s[i] = x

\* the CX branch of format_cmd
\* mutant: any second token taken as the argument
format_cx_any_arg(parts) ==
    IF Len(parts) # 2
    THEN CmdError("Usage: CX ON|OFF")
    ELSE CmdLine(wire(<<"C","X">>, <<upper(parts[2])>>))

format_cx(parts) ==
    IF Len(parts) # 2 \/ upper(parts[2]) \notin ON_OFF
    THEN CmdError("Usage: CX ON|OFF")
    ELSE CmdLine(wire(<<"C","X">>, <<upper(parts[2])>>))

\* the ST branch of format_cmd
\* mutant: the colons of hh:mm:ss not looked at
format_st_any_eight(parts) ==
    IF Len(parts) # 2 THEN CmdError("Usage: ST hh:mm:ss | ST GPS")
    ELSE LET arg == upper(parts[2])
         IN  IF arg = <<"G","P","S">> THEN CmdLine(wire(<<"S","T">>, <<arg>>))
             ELSE IF Len(arg) = 8
             THEN CmdLine(wire(<<"S","T">>, <<arg>>))
             ELSE CmdError("ST must be hh:mm:ss or GPS")

format_st(parts) ==
    IF Len(parts) # 2 THEN CmdError("Usage: ST hh:mm:ss | ST GPS")
    ELSE LET arg == upper(parts[2])
         IN  IF arg = <<"G","P","S">> THEN CmdLine(wire(<<"S","T">>, <<arg>>))
             ELSE IF Len(arg) = 8 /\ arg[3] = ":" /\ arg[6] = ":"
             THEN CmdLine(wire(<<"S","T">>, <<arg>>))
             ELSE CmdError("ST must be hh:mm:ss or GPS")

\* the SIM branch of format_cmd
format_sim(parts) ==
    IF Len(parts) # 2 \/ upper(parts[2]) \notin SIM_ARGS
    THEN CmdError("Usage: SIM ENABLE|ACTIVATE|DISABLE")
    ELSE CmdLine(wire(<<"S","I","M">>, <<upper(parts[2])>>))

\* the SIMP branch of format_cmd
format_simp(parts) ==
    IF Len(parts) # 2 \/ ~isdigit(parts[2])
    THEN CmdError("Usage: SIMP <pressure_pa>")
    ELSE CmdLine(wire(<<"S","I","M","P">>, <<parts[2]>>))

\* the MEC branch of format_cmd
\* mutant: the device is not searched for commas
format_mec_any_device(parts) ==
    IF Len(parts) # 3 \/ upper(parts[3]) \notin ON_OFF
    THEN CmdError("Usage: MEC <DEVICE> <ON|OFF>")
    ELSE CmdLine(wire(<<"M","E","C">>, <<upper(parts[2]), upper(parts[3])>>))

format_mec(parts) ==
    IF Len(parts) # 3 \/ upper(parts[3]) \notin ON_OFF
    THEN CmdError("Usage: MEC <DEVICE> <ON|OFF>")
    ELSE LET device == upper(parts[2])
         IN  IF contains(device, ",")
             THEN CmdError("DEVICE must not contain commas")
             ELSE CmdLine(wire(<<"M","E","C">>, <<device, upper(parts[3])>>))

\* format_cmd(parts): the wire line, or the ValueError raised
format_cmd(parts) ==
    LET name == upper(parts[1])
    IN  IF parts = <<>> THEN CmdError("Empty input")
        ELSE IF name = <<"C","A","L">> THEN CmdLine(wire(name, <<>>))
        ELSE IF name = <<"C","X">> THEN format_cx(parts)
        ELSE IF name = <<"S","T">> THEN format_st(parts)
        ELSE IF name = <<"S","I","M">> THEN format_sim(parts)
        ELSE IF name = <<"S","I","M","P">> THEN format_simp(parts)
        ELSE IF name = <<"M","E","C">> THEN format_mec(parts)
        ELSE CmdError("Unknown command")

\* maybe_send_udp(line): the datagram goes out only when config.py names a
\* destination
maybe_send_udp(line) ==
    /\ tx' = Append(tx, line)
    /\ sent' = IF ENABLE_UDP_SEND THEN Append(sent, line) ELSE sent

UpEvent(op, kind) == [NoEvent EXCEPT !.op = op, !.kind = kind]

\* mutant: the line of a failed command is handed on all the same
cmd_main_step_sends_failed(raw) ==
    LET parts == split_ws(strip(raw))
        r     == format_cmd(parts)
    IN  IF parts = <<>>
        THEN event' = UpEvent("cmd", "empty") /\ UNCHANGED <<tx, sent>>
        ELSE IF ~r.ok
        THEN event' = UpEvent("cmd", "error") /\ maybe_send_udp(join(parts, ","))
        ELSE event' = UpEvent("cmd", "sent") /\ maybe_send_udp(r.line)

\* one line of standard input in main()
cmd_main_step(raw) ==
    LET parts == split_ws(strip(raw))
        r     == format_cmd(parts)
    IN  IF parts = <<>>
        THEN event' = UpEvent("cmd", "empty") /\ UNCHANGED <<tx, sent>>
        ELSE IF ~r.ok
        THEN event' = UpEvent("cmd", "error") /\ UNCHANGED <<tx, sent>>
        ELSE event' = UpEvent("cmd", "sent") /\ maybe_send_udp(r.line)

----------------------------------------------------------------------------
(* gs_gui2.py: the command buttons and the ProfileStreamer *)

\* the import of cmd_sender_udp next to gs_gui2.py succeeds
HAVE_CMD == TRUE

\* MainWindow.send_cmd(cmd)
send_cmd(cmd) ==
    IF HAVE_CMD
    THEN event' = UpEvent("send_cmd", "sent") /\ maybe_send_udp(cmd)
    ELSE event' = UpEvent("send_cmd", "no backend") /\ UNCHANGED <<tx, sent>>

\* one row of the profile in ProfileStreamer._loop, p its pressure_pa cell
profile_loop_step(p) ==
    /\ event' = UpEvent("ProfileStreamer", "sent")
    /\ maybe_send_udp(<<"S","I","M","P"," ">> \o p)

\* the commands the buttons of the console send; the ST button sends the host
\* time as hh:mm:ss
MEC_DEVICES == { <<"S","E","R","V","O","1">>,
                 <<"S","E","R","V","O","2">>,
                 <<"C","A","M">>,
                 <<"B","E","A","C","O","N">> }

ButtonCommands ==
    { <<"C","X"," ","O","N">>,
      <<"C","X"," ","O","F","F">>,
      <<"S","T"," ","G","P","S">>,
      <<"S","T"," ","1","3",":","1","4",":","0","2">>,
      <<"C","A","L">>,
      <<"S","I","M"," ","E","N","A","B","L","E">>,
      <<"S","I","M"," ","A","C","T","I","V","A","T","E">>,
      <<"S","I","M"," ","D","I","S","A","B","L","E">> }
    \cup { <<"M","E","C"," ">> \o d \o <<" ">> \o o : d \in MEC_DEVICES, o \in ON_OFF }

----------------------------------------------------------------------------
(* sim_pressure_streamer.py *)

\* int(round(float(raw))) for a decimal text: an optional sign, digits, an
\* optional fraction; <<>> stands for ValueError.  round() goes to the nearest
\* integer, a half to the even one.
rounded_int(raw) ==
    LET t    == strip(raw)
        sgn  == t # <<>> /\ t[1] \in {"+", "-"}
        neg  == t # <<>> /\ t[1] = "-"
        body == IF sgn THEN Tail(t) ELSE t
        dots == {i \in 1..Len(body) : body[i] = "."}
        dot  == IF dots = {} THEN Len(body) + 1 ELSE CHOOSE i \in dots : TRUE
        ip   == SubSeq(body, 1, dot - 1)
        fp   == SubSeq(body, dot + 1, Len(body))
        ok   == /\ Cardinality(dots) <= 1
                /\ Len(ip) + Len(fp) > 0
                /\ \A i \in 1..Len(ip) : IsDigitChar(ip[i])
                /\ \A i \in 1..Len(fp) : IsDigitChar(fp[i])
        whole == digits_value(ip, 0)
        first == IF fp = <<>> THEN 0 ELSE DigitVal(fp[1])
        rest  == \E i \in 2..Len(fp) : fp[i] # "0"
        up    == \/ first > 5
                 \/ first = 5 /\ rest
                 \/ first = 5 /\ ~rest /\ whole % 2 = 1
        mag   == IF up THEN whole + 1 ELSE whole
    IN  IF ok THEN <<IF neg THEN 0 - mag ELSE mag>> ELSE <<>>

min_pa == 50000
max_pa == 110000

\* one row of the CSV in stream_pressure(); row is the list of its cells
stream_pressure_step(row, enforce_range) ==
    LET raw == strip(row[1])
        v   == rounded_int(raw)
        pressure_val == v[1]
    IN  IF row = <<>> \/ raw = <<>>
        THEN event' = UpEvent("stream_pressure", "empty") /\ UNCHANGED <<tx, sent>>
        ELSE IF v = <<>>
        THEN event' = UpEvent("stream_pressure", "not a number") /\ UNCHANGED <<tx, sent>>
        ELSE IF enforce_range /\ ~(min_pa <= pressure_val /\ pressure_val <= max_pa)
        THEN event' = UpEvent("stream_pressure", "out of range") /\ UNCHANGED <<tx, sent>>
        ELSE /\ event' = UpEvent("stream_pressure", "sent")
             /\ maybe_send_udp(wire(<<"S","I","M","P">>, <<int_str(pressure_val)>>))

----------------------------------------------------------------------------
(* The uplink inputs tried *)

StdinLines ==
    { <<"C","A","L","\n">>,
      <<"c","a","l"," ","n","o","w","\n">>,
      <<"c","x"," ","o","n","\n">>,
      <<"C","X"," ","m","a","y","b","e","\n">>,
      <<"s","t"," ","1","3",":","1","4",":","0","2","\n">>,
      <<"s","t"," ","g","p","s","\n">>,
      <<"s","t"," ","a","b","c","\n">>,
      <<"s","t"," ","1","2",":",",","4",":","5","6","\n">>,
      <<"s","i","m"," ","e","n","a","b","l","e","\n">>,
      <<"S","I","M"," ","o","f","f","\n">>,
      <<"s","i","m","p"," ","1","0","1","3","2","5","\n">>,
      <<"s","i","m","p"," ","-","5","\n">>,
      <<"m","e","c"," ","s","e","r","v","o","1"," ","o","n","\n">>,
      <<"m","e","c"," ","s","e",",","r","v","o"," ","o","n","\n">>,
      <<"m","e","c"," ","c","a","m","\n">>,
      <<"r","e","b","o","o","t","\n">>,
      <<"c","a","l","\n">>,
      <<"C","X","\n">>,
      <<"c","x"," ","o","n"," ","o","f","f","\n">>,
      <<"c","x"," ","O","F","F","\n">>,
      <<"S","T"," ","G","P","S","\n">>,
      <<"s","t"," ","g","p","s"," ","n","o","w","\n">>,
      <<"s","t"," ","1","2","3","4","5","6","7","\n">>,
      <<"s","t"," ","1","2","-","1","4",":","0","2","\n">>,
      <<"s","t"," ","1","3",":","1","4",":","0","2","0","\n">>,
      <<"m","e","c"," ","c","a","m"," ","o","f","f","\n">>,
      <<"m","e","c"," ","c","a","m"," ","o","n"," ","o","f","f","\n">>,
      <<"m","e","c"," ","c","a","m"," ","u","p","\n">>,
      <<"s","i","m","p"," ","5"," ","6","\n">>,
      <<" "," ","\n">> }

\* pressure_pa cells of a profile read with csv.DictReader
ProfileCells ==
    { <<"1","0","1","3","2","5">>,
      <<"1","0","1","3","2","5",".","6">>,
      <<"-","5">>,
      <<"a","b","c">>,
      <<>> }

\* rows of a pressure CSV read with csv.reader
PressureRows ==
    { <<c>> : c \in { <<"1","0","1","3","2","5">>,
               <<"9","9","9","9","9",".","5">>,
               <<"1","0","0","0","0","0",".","5">>,
               <<"5","0","0","0","0">>,
               <<" ","6","0","0","0","0",".","4","9"," ">>,
               <<"-","5">>,
               <<"-","0",".","4">>,
               <<"p","r","e","s","s","u","r","e","_","p","a">>,
               <<>>,
               <<"1","2",".","3",".","4">> } }
    \cup { <<>>, << <<"7","0","0","0","0">>, <<"1">> >> }

----------------------------------------------------------------------------
(* The datagrams tried *)

\* a telemetry line of n fields as a sender builds it
WireLine(n, team, pkt, mode, state) ==
    join([i \in 1..n |->
            CASE i = 1  -> team
              [] i = 3  -> pkt
              [] i = 4  -> mode
              [] i = 5  -> state
              [] i = 25 -> <<"C","X","O","N">>
              [] i > 25 -> <<"X">>
              [] OTHER  -> <<"0">>], ",") \o <<"\n">>

sample_line ==
    <<"1","0","0","0",",","1","3",":","1","4",":","0","2",",","1","2","3",",",
      "F",",","A","S","C","E","N","T",",","4","5","2",".","3",",","2","7",".",
      "5",",","9","5",".","3",",","7",".","4",",","0",".","1","2",",","-","0",
      ".","0","5",",","0",".","0","1",",","0",".","0","2",",","0",".","0","0",
      ",","-","0",".","0","1",",","0",".","2","3",",","0",".","0","1",",","0",
      ".","0","4",",","1","5",",","1","3",":","1","4",":","0","1",",","4","5",
      "5",".","1",",","1",".","2","3","4","5",",","1","0","3",".","8","2","3",
      "4",",","8",",","C","X","O","N","\n">>

OtherTeam == <<"2","0","0","0">>
Ascent    == <<"A","S","C","E","N","T">>

FieldCounts  == {3, 24, 25, 26}
TeamTokens   == {TEAM_ID, OtherTeam, TEAM_ID \o <<" ">>}
ModeTokens   == {<<"F">>, <<"S">>, <<"X">>}
StateTokens  == {Ascent, <<"L","A","N","D","E","D">>, <<"B","O","G","U","S">>}
PacketTokens == {<<"2">>, <<"1","2","3">>, <<"-","5">>, <<"a","b","c">>,
                 <<" ","7">>, <<>>}

\* the datagrams of a one-shot decode run
DecodeDatagrams ==
    { WireLine(n, t, p, m, s) : n \in FieldCounts, t \in TeamTokens,
                                p \in PacketTokens, m \in ModeTokens,
                                s \in StateTokens }
    \cup { sample_line, <<NonAscii>> \o sample_line, <<"\n">> }

\* the datagrams of a session run of the console
SessionDatagrams ==
    { WireLine(25, TEAM_ID, p, <<"F">>, Ascent) :
        p \in {<<"1">>, <<"2">>, <<"3">>, <<"5">>, <<"a","b","c">>} }
    \cup { WireLine(24, TEAM_ID, <<"2">>, <<"F">>, Ascent) }

\* the datagrams of a session run of the receiver
ReceiverDatagrams ==
    SessionDatagrams
    \cup { WireLine(26, TEAM_ID, <<"2">>, <<"F">>, Ascent),
           WireLine(25, OtherTeam, <<"2">>, <<"F">>, Ascent),
           <<NonAscii, "\n">> }

----------------------------------------------------------------------------
(* gs_gui2.py: the threads of the console *)

\* REQUIRED_HEADERS as a list of str: the field names written out as text
header_names ==
    <<
   <<"T","E","A","M","_","I","D">>,
       <<"M","I","S","S","I","O","N","_","T","I","M","E">>,
       <<"P","A","C","K","E","T","_","C","O","U","N","T">>,
       <<"M","O","D","E">>,
       <<"S","T","A","T","E">>,
       <<"A","L","T","I","T","U","D","E">>,
       <<"T","E","M","P","E","R","A","T","U","R","E">>,
       <<"P","R","E","S","S","U","R","E">>,
       <<"V","O","L","T","A","G","E">>,
       <<"G","Y","R","O","_","R">>,
       <<"G","Y","R","O","_","P">>,
       <<"G","Y","R","O","_","Y">>,
       <<"A","C","C","E","L","_","R">>,
       <<"A","C","C","E","L","_","P">>,
       <<"A","C","C","E","L","_","Y">>,
       <<"M","A","G","_","R">>,
       <<"M","A","G","_","P">>,
       <<"M","A","G","_","Y">>,
       <<"A","U","T","O","_","G","Y","R","O","_","R","O","T","A","T","I","O","N","_","R","A","T","E">>,
       <<"G","P","S","_","T","I","M","E">>,
       <<"G","P","S","_","A","L","T","I","T","U","D","E">>,
       <<"G","P","S","_","L","A","T","I","T","U","D","E">>,
       <<"G","P","S","_","L","O","N","G","I","T","U","D","E">>,
       <<"G","P","S","_","S","A","T","S">>,
       <<"C","M","D","_","E","C","H","O">> >>

\* a signal emitted by a worker thread for a slot of an object of the main
\* thread: the call is queued for the event loop of the main thread
emit(queue, call) == Append(queue, call)

\* the arrival number of the next line a thread hands over
next_arrival == rxthr.got + replayer.emitted + 1

\* UdpReceiver.start() and stop(), on the record u of the receiver
UdpReceiver_start(u) ==
    IF u.pc # "none" THEN u
    ELSE [u EXCEPT !.stop = FALSE, !.pc = "bind"]

UdpReceiver_stop(u) == [u EXCEPT !.stop = TRUE]

\* MainWindow.toggle_udp
toggle_udp ==
    IF rxthr.btn = "Start UDP"
    THEN rxthr' = [UdpReceiver_start(rxthr) EXCEPT !.btn = "Stop UDP"]
    ELSE rxthr' = [UdpReceiver_stop(rxthr) EXCEPT !.btn = "Start UDP"]

\* UdpReceiver._loop: the socket is made, bound and given its timeout (the
\* port is taken to be free)
loop_bind(u) == [u EXCEPT !.sock = "open", !.pc = "check"]

\* mutant: the loop runs on whatever the stop flag says
loop_check_forever(u) == [u EXCEPT !.pc = "recvfrom"]

\* while not self._stop.is_set()
loop_check(u) == [u EXCEPT !.pc = IF u.stop THEN "close" ELSE "recvfrom"]

\* recvfrom raised socket.timeout: continue
loop_timeout(u) == [u EXCEPT !.pc = "check"]

\* recvfrom returned the datagram d: decode, strip, emit unless empty
loop_recv(d) ==
    LET line == strip(decode_ascii_ignore(d))
    IN  /\ rxthr' = [rxthr EXCEPT !.pc = "check", !.got = @ + 1]
        /\ mainq' = IF line = <<>> THEN mainq
                    ELSE emit(mainq, [slot |-> "on_udp_line", line |-> line,
                                      n |-> next_arrival])

\* finally: sock.close(), and the thread ends
loop_close(u) == [u EXCEPT !.sock = "closed", !.pc = "none"]

\* the files chosen for replay: the lines of each, without their line ends
header_line == join(header_names, ",")

record_line(pkt) == strip(WireLine(25, TEAM_ID, pkt, <<"F">>, Ascent))

ReplayFiles ==
    [ log      |-> <<header_line, record_line(<<"1">>), record_line(<<"3">>)>>,
      blank    |-> <<header_line, <<>>, record_line(<<"2">>)>>,
      empty    |-> <<>>,
      headless |-> <<record_line(<<"1">>), record_line(<<"2">>)>>,
      short    |-> <<join(SubSeq(header_names, 1, 24), ","), record_line(<<"1">>)>>,
      extra    |-> <<header_line \o <<",","X">>, record_line(<<"1">>)>>,
      swapped  |-> <<join(<<header_names[2], header_names[1]>>
                            \o SubSeq(header_names, 3, 25), ","),
                     record_line(<<"1">>)>>,
      lower    |-> <<<<"t">> \o Tail(header_line), record_line(<<"1">>)>>,
      spaced   |-> <<header_line \o <<" ">>, record_line(<<"1">>)>> ]

\* a row of csv.reader for a line without quote characters; an empty line is
\* the empty list
csv_reader_row(line) == IF line = <<>> THEN <<>> ELSE split(line, ",")

\* next(rdr, None); None is the empty list here, which is no header either
next_or_none(file) == IF file = <<>> THEN <<>> ELSE csv_reader_row(file[1])

\* mutant: only the number of columns of the header is compared
headers_mismatch_count(headers) == Len(headers) # Len(header_names)

\* headers != REQUIRED_HEADERS
headers_mismatch(headers) == headers # header_names

\* CsvReplayer.start() and stop(), on the record r of the replayer
CsvReplayer_start(r) ==
    IF r.path = "" THEN r
    ELSE IF r.pc # "none" THEN r
    ELSE [r EXCEPT !.stop = FALSE, !.pc = "open"]

CsvReplayer_stop(r) == [r EXCEPT !.stop = TRUE]

\* MainWindow.load_replay: a file is chosen
load_replay(path) == replayer' = [replayer EXCEPT !.path = path]

\* MainWindow.toggle_replay, the button being checkable
toggle_replay ==
    IF ~replayer.checked
    THEN replayer' = [CsvReplayer_start(replayer) EXCEPT !.checked = TRUE]
    ELSE replayer' = [CsvReplayer_stop(replayer) EXCEPT !.checked = FALSE]

\* CsvReplayer._loop: the file is opened and its first row read
replay_open ==
    LET file    == ReplayFiles[replayer.path]
        headers == next_or_none(file)
    IN  IF headers_mismatch(headers)
        THEN /\ replayer' = [replayer EXCEPT !.pc = "none"]
             /\ event' = [NoEvent EXCEPT !.op = "replay",
                                         !.kind = "CSV headers mismatch"]
        ELSE /\ replayer' = [replayer EXCEPT !.pc = "rows", !.pos = 2]
             /\ event' = [NoEvent EXCEPT !.op = "replay", !.kind = "header"]

\* mutant: the replay thread calls the slot itself
replay_emit_direct(line) ==
    /\ append_csv_line(line)
    /\ handled' = Append(handled, next_arrival)
    /\ UNCHANGED mainq

\* self.line.emit(",".join(row))
replay_emit(line) ==
    /\ mainq' = emit(mainq, [slot |-> "append_csv_line", line |-> line,
                             n |-> next_arrival])
    /\ event' = [NoEvent EXCEPT !.op = "replay", !.kind = "line"]
    /\ UNCHANGED <<rows, last_pkt, dropped, obs, accepted, handled>>

\* CsvReplayer._loop: one turn of "for row in rdr"
replay_row ==
    LET file == ReplayFiles[replayer.path]
    IN  IF replayer.pos > Len(file) \/ replayer.stop
        THEN /\ replayer' = [replayer EXCEPT !.pc = "none"]
             /\ event' = [NoEvent EXCEPT !.op = "replay", !.kind = "end"]
             /\ UNCHANGED <<mainq, rows, last_pkt, dropped, obs, accepted, handled>>
        ELSE /\ replayer' = [replayer EXCEPT !.pos = @ + 1, !.emitted = @ + 1]
             /\ replay_emit(join(csv_reader_row(file[replayer.pos]), ","))

\* the event loop of the main thread runs the queued call that is first
main_dispatch ==
    LET call == Head(mainq)
    IN  /\ mainq' = Tail(mainq)
        /\ handled' = Append(handled, call.n)
        /\ IF call.slot = "on_udp_line"
           THEN on_udp_line(call.line)
           ELSE append_csv_line(call.line) /\ UNCHANGED <<packet_count, log_rows>>

----------------------------------------------------------------------------
(* Specifications *)

\* no thread of the console is started, no replay file is chosen
NoThread == [pc |-> "none", stop |-> FALSE]

InitThreads ==
    /\ mainq = <<>>
    /\ rxthr = NoThread @@ [sock |-> "none", btn |-> "Start UDP", got |-> 0]
    /\ replayer = NoThread @@ [path |-> "", checked |-> FALSE, pos |-> 0,
                                emitted |-> 0]
    /\ handled = <<>>

InitSession(p, cap) ==
    /\ prog = p
    /\ event = NoEvent
    /\ obs = <<>>
    /\ accepted = <<>>
    /\ received = 0
    /\ lost = 0
    /\ last_tx_count = <<>>
    /\ csv_rows = IF p = "receiver" THEN writerow(<<>>, REQUIRED_HEADERS) ELSE <<>>
    /\ rows = <<>>
    /\ maxlen = cap
    /\ last_pkt = <<>>
    /\ dropped = 0
    /\ packet_count = 0
    /\ logging = FALSE
    /\ log_rows = <<>>
    /\ ENABLE_UDP_SEND = FALSE
    /\ tx = <<>>
    /\ sent = <<>>
    /\ durable = <<>>
    /\ InitThreads

\* the receiver process: main() of receiver_udp.py
ReceiverRecv ==
    /\ prog = "receiver"
    /\ received < MaxLines
    /\ \E d \in ReceiverDatagrams : receiver_step(d)
    /\ UNCHANGED <<prog, data, guiVars, upVars, thrVars>>

\* the console: a datagram arrives
ConsoleRecv ==
    /\ prog = "console"
    /\ packet_count < MaxLines
    /\ \E d \in SessionDatagrams : udp_loop_step(d)
    /\ UNCHANGED <<prog, data, rxVars, maxlen, logging, upVars, durable, thrVars>>

\* the console: the log button is pressed
ConsoleLogOn ==
    /\ prog = "console"
    /\ toggle_log_on
    /\ event' = [NoEvent EXCEPT !.op = "toggle_log"]
    /\ UNCHANGED <<prog, data, obs, accepted, rxVars, rows, maxlen, last_pkt,
                   dropped, packet_count, upVars, thrVars>>

ConsoleLogOff ==
    /\ prog = "console"
    /\ toggle_log_off
    /\ event' = [NoEvent EXCEPT !.op = "toggle_log"]
    /\ UNCHANGED <<prog, data, obs, accepted, rxVars, rows, maxlen, last_pkt,
                   dropped, packet_count, upVars, thrVars>>

InitS ==
    /\ data = <<>>
    /\ \/ InitSession("receiver", DEFAULT_MAXLEN)
       \/ InitSession("console", MaxCap)

NextS == ReceiverRecv \/ ConsoleRecv \/ ConsoleLogOn \/ ConsoleLogOff

SpecSession == InitS /\ [][NextS]_vars

\* one-shot decode runs: one datagram, handed once to one acceptance path
DecodeReceiver ==
    /\ prog = "receiver"
    /\ event.op = "none"
    /\ receiver_step(data)
    /\ UNCHANGED <<prog, data, guiVars, upVars, thrVars>>

DecodeConsole ==
    /\ prog = "console"
    /\ packet_count = 0
    /\ event.op \in {"none", "toggle_log"}
    /\ udp_loop_step(data)
    /\ UNCHANGED <<prog, data, rxVars, maxlen, logging, upVars, durable, thrVars>>

DecodeLogOn ==
    /\ event.op = "none"
    /\ ConsoleLogOn

InitD ==
    /\ data \in DecodeDatagrams
    /\ \E p \in {"receiver", "console"} : InitSession(p, DEFAULT_MAXLEN)

NextD == DecodeReceiver \/ DecodeConsole \/ DecodeLogOn

SpecDecode == InitD /\ [][NextD]_vars

\* the uplink senders: each process hands lines to maybe_send_udp
InitU ==
    /\ prog \in {"cmd", "console", "simp"}
    /\ data = <<>>
    /\ event = NoEvent
    /\ obs = <<>>
    /\ accepted = <<>>
    /\ received = 0
    /\ lost = 0
    /\ last_tx_count = <<>>
    /\ csv_rows = <<>>
    /\ rows = <<>>
    /\ maxlen = DEFAULT_MAXLEN
    /\ last_pkt = <<>>
    /\ dropped = 0
    /\ packet_count = 0
    /\ logging = FALSE
    /\ log_rows = <<>>
    /\ ENABLE_UDP_SEND \in BOOLEAN
    /\ tx = <<>>
    /\ sent = <<>>
    /\ durable = <<>>
    /\ InitThreads

sessionVars == <<prog, obs, accepted, rxVars, guiVars, ENABLE_UDP_SEND, durable,
                 thrVars>>

CmdInput ==
    /\ prog = "cmd"
    /\ Len(tx) < MaxSends
    /\ \E raw \in StdinLines : cmd_main_step(raw) /\ data' = raw
    /\ UNCHANGED sessionVars

ConsoleButton ==
    /\ prog = "console"
    /\ Len(tx) < MaxSends
    /\ \E cmd \in ButtonCommands : send_cmd(cmd)
    /\ UNCHANGED <<data, sessionVars>>

ConsoleProfileRow ==
    /\ prog = "console"
    /\ Len(tx) < MaxSends
    /\ \E p \in ProfileCells : profile_loop_step(p)
    /\ UNCHANGED <<data, sessionVars>>

PressureRow ==
    /\ prog = "simp"
    /\ Len(tx) < MaxSends
    /\ \E row \in PressureRows, enforce_range \in BOOLEAN :
          stream_pressure_step(row, enforce_range)
    /\ UNCHANGED <<data, sessionVars>>

NextU == CmdInput \/ ConsoleButton \/ ConsoleProfileRow \/ PressureRow

SpecUplink == InitU /\ [][NextU]_vars

\* the console with its threads: the UDP receiver, the replayer and the event
\* loop of the main thread
ConsoleDatagrams ==
    { WireLine(25, TEAM_ID, <<"5">>, <<"F">>, Ascent),
      <<"\n">> }

ReplayPaths == DOMAIN ReplayFiles

modelVars == <<obs, accepted, rows, last_pkt, dropped, packet_count, log_rows>>
restVars  == <<prog, data, rxVars, maxlen, logging, upVars, durable>>

InitC ==
    /\ data = <<>>
    /\ InitSession("console", MaxCap)

ToggleUdp ==
    /\ toggle_udp
    /\ UNCHANGED <<event, modelVars, restVars, mainq, replayer, handled>>

LoopBind ==
    /\ rxthr.pc = "bind"
    /\ rxthr' = loop_bind(rxthr)
    /\ UNCHANGED <<event, modelVars, restVars, mainq, replayer, handled>>

LoopCheck ==
    /\ rxthr.pc = "check"
    /\ rxthr' = loop_check(rxthr)
    /\ UNCHANGED <<event, modelVars, restVars, mainq, replayer, handled>>

LoopTimeout ==
    /\ rxthr.pc = "recvfrom"
    /\ rxthr' = loop_timeout(rxthr)
    /\ UNCHANGED <<event, modelVars, restVars, mainq, replayer, handled>>

LoopRecvOf(datagrams) ==
    /\ rxthr.pc = "recvfrom"
    /\ rxthr.got + replayer.emitted < MaxHandOver
    /\ \E d \in datagrams : loop_recv(d)
    /\ UNCHANGED <<event, modelVars, restVars, replayer, handled>>

LoopRecv == LoopRecvOf(ConsoleDatagrams)

\* a datagram with a telemetry line arrives
LoopRecvLine == LoopRecvOf({WireLine(25, TEAM_ID, <<"5">>, <<"F">>, Ascent)})

LoopClose ==
    /\ rxthr.pc = "close"
    /\ rxthr' = loop_close(rxthr)
    /\ UNCHANGED <<event, modelVars, restVars, mainq, replayer, handled>>

LoopThread == LoopBind \/ LoopCheck \/ LoopTimeout \/ LoopRecv \/ LoopClose

\* a file is chosen once in a run
LoadReplayOf(paths) ==
    /\ replayer.path = ""
    /\ \E path \in paths : load_replay(path)
    /\ UNCHANGED <<event, modelVars, restVars, mainq, rxthr, handled>>

LoadReplay == LoadReplayOf(ReplayPaths)

\* a log of an earlier run is chosen
LoadReplayLog == LoadReplayOf({"log"})

ToggleReplay ==
    /\ toggle_replay
    /\ UNCHANGED <<event, modelVars, restVars, mainq, rxthr, handled>>

ReplayOpen ==
    /\ replayer.pc = "open"
    /\ replay_open
    /\ UNCHANGED <<modelVars, restVars, mainq, rxthr, handled>>

\* a run hands MaxHandOver lines over at most
ReplayRow ==
    /\ replayer.pc = "rows"
    /\ \/ rxthr.got + replayer.emitted < MaxHandOver
       \/ replayer.pos > Len(ReplayFiles[replayer.path])
       \/ replayer.stop
    /\ replay_row
    /\ UNCHANGED <<packet_count, log_rows, restVars, rxthr>>

MainDispatch ==
    /\ mainq # <<>>
    /\ main_dispatch
    /\ UNCHANGED <<restVars, rxthr, replayer>>

NextC ==
    \/ ToggleUdp \/ LoopBind \/ LoopCheck \/ LoopTimeout \/ LoopRecvLine \/ LoopClose
    \/ LoadReplayLog \/ ToggleReplay \/ ReplayOpen \/ ReplayRow
    \/ MainDispatch

SpecConsole == InitC /\ [][NextC]_vars

\* the replayer of the console alone, on each of the files
NextReplay ==
    LoadReplay \/ ToggleReplay \/ ReplayOpen \/ ReplayRow \/ MainDispatch

SpecReplay == InitC /\ [][NextReplay]_vars

\* the UDP receiver of the console alone; a thread that can run does run, and
\* recvfrom returns after its timeout at the latest
NextRx ==
    \/ ToggleUdp \/ LoopBind \/ LoopCheck \/ LoopTimeout \/ LoopRecv \/ LoopClose
    \/ MainDispatch

SpecCancel == InitC /\ [][NextRx]_vars /\ WF_vars(LoopThread)

----------------------------------------------------------------------------
(* Properties *)

N == Len(REQUIRED_HEADERS)

\* the loss the tracker rule gives for a whole sequence of observations
RECURSIVE gap_sum(_)
gap_sum(s) ==
    IF Len(s) < 2 THEN 0
    ELSE (IF s[2] > s[1] + 1 THEN s[2] - s[1] - 1 ELSE 0) + gap_sum(Tail(s))

TrackerLast == IF prog = "receiver" THEN last_tx_count ELSE last_pkt
TrackerLoss == IF prog = "receiver" THEN lost ELSE dropped

InputFields == split(strip(decode_ascii_ignore(data)), ",")
InputHas(name) == Len(InputFields) >= INDEX(name)
InputField(name) == strip(InputFields[INDEX(name)])

\* the datagram of a decode run has been through parse_and_validate
DecodedByReceiver == prog = "receiver" /\ event.op = "receiver" /\ event.kind # "empty"
\* the datagram of a decode run has been through append_csv_line
DecodedByConsole == prog = "console" /\ event.op = "append_csv_line"

NothingAccepted ==
    /\ event.row = <<>>
    /\ accepted = <<>> /\ obs = <<>>
    /\ received = 0 /\ last_tx_count = <<>> /\ csv_rows = <<REQUIRED_HEADERS>>

\* C2: a line of fewer than N = 25 fields fails in parse_and_validate with the
\* field-count error whatever its fields hold, and no record is produced.
C2_TooFewFields ==
    (DecodedByReceiver /\ Len(InputFields) < N) =>
        (event.kind = "too few fields" /\ NothingAccepted)

C2_Witness ==
    /\ DecodedByReceiver
    /\ Len(InputFields) = N - 1
    /\ InputField("TEAM_ID") # TEAM_ID
    /\ InputField("MODE") \notin ALLOWED_MODES
    /\ event.kind = "too few fields"

\* C3 as stated: a line whose mode field is not an allowed mode token always
\* fails in parse_and_validate with the invalid-mode error.
C3_AlwaysModeError ==
    (DecodedByReceiver /\ InputHas("MODE") /\ InputField("MODE") \notin ALLOWED_MODES)
        => event.kind = "bad MODE"

\* C3, amended: a line whose mode field is not an allowed mode token is never
\* accepted by parse_and_validate, and the error is the invalid-mode error
\* whenever the line has at least N fields and its team id matches, whatever
\* its state and packet count.
C3_ModeError ==
    (DecodedByReceiver /\ InputHas("MODE") /\ InputField("MODE") \notin ALLOWED_MODES)
        => /\ event.kind # "ok"
           /\ NothingAccepted
           /\ (Len(InputFields) >= N /\ InputField("TEAM_ID") = TEAM_ID)
                  => event.kind = "bad MODE"

C3_Witness ==
    /\ DecodedByReceiver
    /\ Len(InputFields) >= N
    /\ InputField("TEAM_ID") = TEAM_ID
    /\ InputField("MODE") \notin ALLOWED_MODES
    /\ InputField("STATE") \notin ALLOWED_STATES
    /\ event.kind = "bad MODE"

\* C4: a line whose team id differs from the configured one is accepted on no
\* path: it reaches neither the loss tracker, nor the history buffer, nor the
\* log.
C4_TeamMismatchRejected ==
    ((DecodedByReceiver \/ DecodedByConsole)
        /\ InputHas("TEAM_ID") /\ InputField("TEAM_ID") # TEAM_ID)
        => /\ event.kind # "ok"
           /\ accepted = <<>> /\ obs = <<>> /\ rows = <<>>
           /\ Len(csv_rows) <= 1 /\ Len(log_rows) <= 1

\* C5: parse_and_validate fails with the non-integer error whenever the packet
\* count (the earlier checks passed) is not a non-negative integer, so every
\* accepted record has a sequence number >= 0.
C5_NonNegativeSequence ==
    DecodedByReceiver =>
        /\ (event.kind = "ok" => (event.seq # <<>> /\ event.seq[1] >= 0))
        /\ ( ( /\ Len(InputFields) >= N
               /\ InputField("TEAM_ID") = TEAM_ID
               /\ InputField("MODE") \in ALLOWED_MODES
               /\ InputField("STATE") \in ALLOWED_STATES
               /\ \/ py_int(InputFields[INDEX("PACKET_COUNT")]) = <<>>
                  \/ py_int(InputFields[INDEX("PACKET_COUNT")])[1] < 0 )
             => event.kind = "PACKET_COUNT not an int" )

\* a line every check of the validator passes
InputValid ==
    /\ Len(InputFields) >= N
    /\ InputField("TEAM_ID") = TEAM_ID
    /\ InputField("MODE") \in ALLOWED_MODES
    /\ InputField("STATE") \in ALLOWED_STATES
    /\ py_int(InputFields[INDEX("PACKET_COUNT")]) # <<>>

\* C6: every line of at least N fields with a matching team id, an allowed
\* mode and state and an integer packet count is accepted on both paths, more
\* than N fields included; the record holds the first N tokens unchanged and
\* the parsed sequence number.
C6_ValidAccepted ==
    /\ (DecodedByReceiver /\ InputValid) =>
          /\ event.kind = "ok"
          /\ event.row = SubSeq(InputFields, 1, N)
          /\ event.seq = py_int(InputFields[INDEX("PACKET_COUNT")])
    /\ (DecodedByConsole /\ InputValid) =>
          /\ event.kind = "ok"
          /\ \A i \in 1..N : event.row[REQUIRED_HEADERS[i]] = InputFields[i]
    /\ (DecodedByReceiver /\ data = sample_line) =>
          /\ event.kind = "ok"
          /\ event.seq = <<123>>
          /\ event.row[INDEX("STATE")] = Ascent

ErrorKinds == {"too few fields", "wrong TEAM_ID", "bad MODE", "bad STATE",
               "PACKET_COUNT not an int", "Bad columns"}

\* C7 as stated: a step that rejects a line leaves the last sequence number,
\* the loss counter, the received count, the history and the log as they were.
C7_RejectedChangesNothing ==
    [][event'.kind \in ErrorKinds =>
          UNCHANGED <<last_tx_count, lost, received, csv_rows,
                      last_pkt, dropped, packet_count, rows, log_rows>>]_vars

\* C7, amended: a step that rejects a line leaves the last sequence number,
\* the loss counter, the receiver's received count, the history and the log
\* as they were, so that the next line meets the session as the rejected
\* one found it; the console's packet_count counts every datagram, the
\* rejected ones too.
C7_RejectedKeepsSession ==
    [][event'.kind \in ErrorKinds =>
          /\ UNCHANGED <<last_tx_count, lost, received, csv_rows,
                         last_pkt, dropped, rows, log_rows, obs, accepted>>
          /\ packet_count' =
               (IF event'.op = "append_csv_line" THEN packet_count + 1
                ELSE packet_count)]_vars

C7_Witness ==
    /\ event.kind = "Bad columns"
    /\ rows # <<>>
    /\ logging /\ Len(log_rows) > 1
    /\ packet_count > Len(accepted)

\* C8: the tracker is updated exactly when a record is appended, so whenever
\* a record has been stored the tracker's last sequence number is the packet
\* count of the record stored last.
C8_TrackerFollowsHistory ==
    /\ (prog = "console" /\ rows # <<>>) =>
          last_pkt = py_int(rows[Len(rows)]["PACKET_COUNT"])
    /\ (prog = "receiver" /\ Len(csv_rows) > 1) =>
          last_tx_count = py_int(csv_rows[Len(csv_rows)][INDEX("PACKET_COUNT")])
    /\ Len(obs) = Len(accepted)

Min(a, b) == IF a < b THEN a ELSE b

\* C9: the history holds at most maxlen records, and they are the latest
\* min(k, maxlen) of the k records accepted, in the order accepted.
C9_BoundedFifo ==
    prog = "console" =>
        /\ Len(rows) <= maxlen
        /\ Len(rows) = Min(Len(accepted), maxlen)
        /\ rows = SubSeq(accepted, Len(accepted) - Len(rows) + 1, Len(accepted))

C9_Witness ==
    /\ prog = "console"
    /\ Len(accepted) = maxlen + 1
    /\ Len(rows) = maxlen
    /\ rows[1] = accepted[2]

\* the grammar table of the uplink: CMD,<team_id>,<COMMAND>[,<ARG>[,<ARG>]]
WireOK(line) ==
    LET f == split(line, ",")
    IN  /\ Len(f) >= 3
        /\ f[1] = <<"C","M","D">>
        /\ f[2] = TEAM_ID
        /\ \/ f[3] = <<"C","A","L">> /\ Len(f) = 3
           \/ f[3] = <<"C","X">> /\ Len(f) = 4 /\ f[4] \in ON_OFF
           \/ f[3] = <<"S","T">> /\ Len(f) = 4
                /\ \/ f[4] = <<"G","P","S">>
                   \/ Len(f[4]) = 8 /\ f[4][3] = ":" /\ f[4][6] = ":"
           \/ f[3] = <<"S","I","M">> /\ Len(f) = 4 /\ f[4] \in SIM_ARGS
           \/ f[3] = <<"S","I","M","P">> /\ Len(f) = 4 /\ isdigit(f[4])
           \/ f[3] = <<"M","E","C">> /\ Len(f) = 5 /\ f[4] # <<>> /\ f[5] \in ON_OFF

\* C10: every line handed to the transport send, by any sender, has the wire
\* form CMD,<team_id>,<COMMAND>[,<ARG>[,<ARG>]] of the grammar table.
C10_WireFormat == \A i \in 1..Len(tx) : WireOK(tx[i])

----------------------------------------------------------------------------
(* The command encoder, as main() of cmd_sender_udp.py applies it to a line *)
(* of standard input                                                        *)

\* the token list main() hands to format_cmd for the line read last
CmdParts == split_ws(strip(data))
CmdName  == upper(CmdParts[1])

\* main() has read a line with at least one token
AfterCmd == prog = "cmd" /\ event.op = "cmd" /\ event.kind # "empty"

Succeeded == event.kind = "sent"
Failed    == event.kind = "error"
LastTx    == tx[Len(tx)]

\* "CMD,<team_id>,<name>"
CmdPrefix(name) == <<"C","M","D",",">> \o TEAM_ID \o <<",">> \o name

OnOff == { <<"O","N">>, <<"O","F","F">> }

\* C11: a CAL token list succeeds only with exactly 1 token, giving
\* CMD,<team_id>,CAL; with any extra token it fails and no wire string is
\* produced.
C11_CalExactlyOneToken ==
    (AfterCmd /\ CmdName = <<"C","A","L">>) =>
        IF Len(CmdParts) = 1
        THEN Succeeded /\ LastTx = CmdPrefix(<<"C","A","L">>)
        ELSE Failed

\* C12: a CX token list succeeds exactly when it has 2 tokens and the
\* argument in upper case is ON or OFF; the wire string is then
\* CMD,<team_id>,CX,<argument in upper case>; every other CX input fails.
C12_CxOnOff ==
    (AfterCmd /\ CmdName = <<"C","X">>) =>
        LET ok == Len(CmdParts) = 2 /\ upper(CmdParts[2]) \in OnOff
        IN  /\ Succeeded <=> ok
            /\ Failed <=> ~ok
            /\ Succeeded =>
                 LastTx = CmdPrefix(<<"C","X">>) \o <<",">> \o upper(CmdParts[2])

C12_Witness ==
    /\ AfterCmd /\ Succeeded
    /\ CmdParts = << <<"c","x">>, <<"o","n">> >>
    /\ LastTx = <<"C","M","D",",">> \o TEAM_ID \o <<",","C","X",",","O","N">>

\* an 8-character text with colons at positions 2 and 5 (counted from 0)
HmsShape(arg) == Len(arg) = 8 /\ arg[3] = ":" /\ arg[6] = ":"

\* C13 as stated: an ST token list succeeds exactly when it has 2 tokens and
\* the argument is the literal GPS or an 8-character text with colons at
\* positions 2 and 5; every other ST input fails.
C13_StLiteralGps ==
    (AfterCmd /\ CmdName = <<"S","T">>) =>
        LET ok == /\ Len(CmdParts) = 2
                  /\ \/ CmdParts[2] = <<"G","P","S">>
                     \/ HmsShape(CmdParts[2])
        IN  (Succeeded <=> ok) /\ (Failed <=> ~ok)

\* C13, amended: an ST token list succeeds exactly when it has 2 tokens and
\* the argument converted to upper case is GPS or an 8-character text with
\* colons at positions 2 and 5; every other ST input fails.
C13_StUpperGps ==
    (AfterCmd /\ CmdName = <<"S","T">>) =>
        LET ok == /\ Len(CmdParts) = 2
                  /\ \/ upper(CmdParts[2]) = <<"G","P","S">>
                     \/ HmsShape(upper(CmdParts[2]))
        IN  (Succeeded <=> ok) /\ (Failed <=> ~ok)

C13_Witness ==
    /\ AfterCmd /\ Succeeded
    /\ CmdParts = << <<"s","t">>, <<"g","p","s">> >>
    /\ LastTx = <<"C","M","D",",">> \o TEAM_ID \o <<",","S","T",",","G","P","S">>

\* C14: a MEC token list fails whenever the device token contains a comma,
\* whenever it has not exactly 3 tokens and whenever the last token in upper
\* case is not ON or OFF; otherwise the wire string is
\* CMD,<team_id>,MEC,<device in upper case>,<ON|OFF>.
C14_MecDevice ==
    (AfterCmd /\ CmdName = <<"M","E","C">>) =>
        LET ok == /\ Len(CmdParts) = 3
                  /\ upper(CmdParts[3]) \in OnOff
                  /\ \A i \in 1..Len(CmdParts[2]) : CmdParts[2][i] # ","
        IN  IF ok
            THEN /\ Succeeded
                 /\ LastTx = CmdPrefix(<<"M","E","C">>) \o <<",">>
                               \o upper(CmdParts[2]) \o <<",">> \o upper(CmdParts[3])
            ELSE Failed

C14_Witness ==
    /\ AfterCmd /\ Failed
    /\ CmdParts = << <<"m","e","c">>, <<"s","e",",","r","v","o">>, <<"o","n">> >>

\* C15: when format_cmd fails on the tokens of a line (also on a line with
\* no token), that step hands nothing to the transport; a line it succeeds on
\* is handed over once.
C15_FailedSendsNothing ==
    [][(prog = "cmd" /\ event'.op = "cmd") =>
         LET parts == split_ws(strip(data'))
             r     == format_cmd(parts)
         IN  IF r.ok
             THEN tx' = Append(tx, r.line)
             ELSE UNCHANGED <<tx, sent>>]_vars

C15_Witness ==
    /\ AfterCmd /\ Failed
    /\ ~format_cmd(CmdParts).ok
    /\ Len(tx) = 1 /\ LastTx = CmdPrefix(<<"C","A","L">>)

----------------------------------------------------------------------------
(* The persisted log *)

\* the log file of the process that runs, as written and as flushed
Log     == IF prog = "receiver" THEN csv_rows ELSE log_rows
LogOpen == prog = "receiver" \/ logging

\* an accepted record (the receiver's list, the console's dict) as the list
\* of its fields in schema order
AsList(row) ==
    IF prog = "receiver" THEN row
    ELSE [i \in 1..N |-> row[REQUIRED_HEADERS[i]]]

\* the checks of the Validator on the fields of a line
ValidRecord(fields) ==
    /\ Len(fields) = N
    /\ strip(fields[INDEX("TEAM_ID")]) = TEAM_ID
    /\ strip(fields[INDEX("MODE")]) \in ALLOWED_MODES
    /\ strip(fields[INDEX("STATE")]) \in ALLOWED_STATES
    /\ py_int(fields[INDEX("PACKET_COUNT")]) # <<>>

\* C17: the log starts with the header row of the schema; while it is open,
\* a step writes a line to it exactly when it accepts a record, the line is
\* that record in schema field order, and it is a record the Validator
\* accepts: no rejected line is written.
C17_LogIsAcceptedRecords ==
    [][/\ Log' # <<>> => Log'[1] = REQUIRED_HEADERS
       /\ (LogOpen /\ LogOpen') =>
            /\ Len(Log') - Len(Log) = Len(accepted') - Len(accepted)
            /\ Len(Log') > Len(Log) =>
                 /\ Log' = Append(Log, AsList(accepted'[Len(accepted')]))
                 /\ ValidRecord(Log'[Len(Log')])]_vars

\* C18: the log is flushed after every accepted record: when the step just
\* taken accepted a record and the log is open, every row written is out of
\* the process, in the receiver and in the console.
C18_FlushedAfterEveryRecord ==
    (LogOpen /\ event.kind = "ok") => durable = Log

----------------------------------------------------------------------------
(* Replay *)

\* the file chosen for replay, and whether its header line is the field
\* names of the schema joined by commas
ReplayFile    == ReplayFiles[replayer.path]
HeaderMatches == ReplayFile # <<>> /\ ReplayFile[1] = header_line

\* C16: when the header line of the file chosen is not the ordered field-name
\* list of the schema, the replayer emits no record line, its only message is
\* the status message, and the telemetry model stays as it was; lines are
\* emitted only after a matching header.
C16_ReplayRejectsBadHeader ==
    /\ (replayer.path # "" /\ ~HeaderMatches) =>
          /\ replayer.emitted = 0
          /\ mainq = <<>> /\ handled = <<>>
          /\ rows = <<>> /\ last_pkt = <<>> /\ dropped = 0 /\ accepted = <<>>
          /\ event.op = "replay" => event.kind = "CSV headers mismatch"
    /\ replayer.emitted > 0 => (replayer.path # "" /\ HeaderMatches)

C16_Witness ==
    /\ replayer.path = "swapped" /\ ~HeaderMatches
    /\ replayer.checked /\ replayer.pc = "none"
    /\ event.kind = "CSV headers mismatch"

----------------------------------------------------------------------------
(* The threads of the console *)

\* the calls of on_udp_line queued for the main thread
UdpCalls(queue) == {i \in 1..Len(queue) : queue[i].slot = "on_udp_line"}

Alive == rxthr.pc # "none"

\* C19: stop() sets the flag and interrupts nothing: the thread stays where
\* it is and the socket stays open; a loop that has the flag set and is not
\* inside recvfrom emits no further line; and a live loop whose flag is set
\* ends with its socket closed.
C19_Cancellation ==
    /\ [][(rxthr'.stop /\ ~rxthr.stop) =>
            (rxthr'.pc = rxthr.pc /\ rxthr'.sock = rxthr.sock /\ mainq' = mainq)]_vars
    /\ [][(rxthr.stop /\ rxthr.pc # "recvfrom") =>
            Cardinality(UdpCalls(mainq')) <= Cardinality(UdpCalls(mainq))]_vars
    /\ [][(rxthr.pc # "none" /\ rxthr'.pc = "none") =>
            (rxthr.stop /\ rxthr'.sock = "closed")]_vars
    /\ (rxthr.stop /\ Alive) ~> (~Alive /\ rxthr.sock = "closed")

C19_Witness ==
    /\ rxthr.stop /\ ~Alive /\ rxthr.sock = "closed"
    /\ rxthr.got > 0 /\ handled # <<>>

\* the arrival numbers of the lines handled and of the lines still queued
Arrivals == handled \o [i \in 1..Len(mainq) |-> mainq[i].n]

Increasing(s) == \A i \in 1..(Len(s) - 1) : s[i] < s[i + 1]

\* C20: a step of the receive thread or of the replay thread changes nothing
\* of the telemetry model, the counters and the log; a step that changes them
\* is the main thread running the one call that is first in its queue; and
\* the lines are handled in the order they were handed over, the two sources
\* together.
C20_SingleWriterInOrder ==
    [][/\ Increasing(Arrivals')
       /\ (rxthr' # rxthr \/ replayer' # replayer) =>
             UNCHANGED <<rows, last_pkt, dropped, packet_count, log_rows,
                         obs, accepted, handled>>
       /\ <<rows, last_pkt, dropped, packet_count, log_rows, obs, accepted,
            handled>>' #
          <<rows, last_pkt, dropped, packet_count, log_rows, obs, accepted,
            handled>> =>
             /\ mainq # <<>> /\ mainq' = Tail(mainq)
             /\ handled' = Append(handled, Head(mainq).n)]_vars

C20_Witness ==
    /\ Len(handled) = 2 /\ Len(accepted) = 2
    /\ packet_count = 1
    /\ Alive /\ replayer.pc # "none"

----------------------------------------------------------------------------
(* The wire string and the comma *)

\* the number of arguments of each command of the grammar
ArgCount(name) ==
    CASE name = <<"C","A","L">> -> 0
      [] name = <<"M","E","C">> -> 2
      [] OTHER -> 1

\* C21: a wire string format_cmd returns splits on commas into exactly 3
\* fields plus one per argument of its command: 3 for CAL, 4 for CX, ST, SIM
\* and SIMP, 5 for MEC; no argument taken contains a comma.
C21_WireFieldCount ==
    (AfterCmd /\ Succeeded) =>
        Len(split(LastTx, ",")) = 3 + ArgCount(CmdName)

----------------------------------------------------------------------------
(* start() and stop() of the UDP receiver *)

\* the control call made last, which toggle_udp keeps in the text of its button
LastCallIsStart == rxthr.btn = "Stop UDP"

\* C22: when the control call made last is start(), a receive loop is alive
\* (and no loop ends but on the stop flag, so it runs with the flag clear):
\* the receiver is in no state with start() called last and no loop, which it
\* could leave only by another control call.
C22_StartedMeansRunning ==
    LastCallIsStart => Alive

====
